---------------------------- MODULE Spec2Model ----------------------------
(***************************************************************************)
(* Model of nisl/region.py: region signal extraction and reconstruction    *)
(* (labels and weighted maps), map trimming, overlap predicates and        *)
(* merging of regions into a mask.                                         *)
(*                                                                         *)
(* Conventions                                                             *)
(*   - a 3D volume is flattened in raster order: a sequence indexed by     *)
(*     voxel number 1..n; its shape is kept beside it;                     *)
(*   - floating point numbers are extended rationals <<num, den>>:         *)
(*     den > 0 and gcd(num, den) = 1 for a finite number, <<0, 0>> is NaN, *)
(*     <<1, 0>> is +inf and <<-1, 0>> is -inf.  Arithmetic is exact: the   *)
(*     rounding of IEEE doubles is not modelled;                           *)
(*   - affine entries are integers counting units of 1e-9.                 *)
(***************************************************************************)
EXTENDS Integers, Sequences, FiniteSets, TLC

-----------------------------------------------------------------------------
(* Bounds of the model *)

\* number of voxels of a volume
NVox == 2
\* maximal number of regions (maps, rows of a region matrix, listed volumes)
MaxRegions == 2
\* number of instants (scans) of a time series
NInstants == 1

-----------------------------------------------------------------------------
(* Extended rational arithmetic (the values of numpy float arrays) *)

Abs(x) == IF x < 0 THEN -x ELSE x

Sign(x) == IF x < 0 THEN -1 ELSE IF x > 0 THEN 1 ELSE 0

RECURSIVE Gcd(_, _)
Gcd(a, b) == IF b = 0 THEN a ELSE Gcd(b, a % b)

NaN == <<0, 0>>

Inf(s) == <<s, 0>>

IsFinite(q) == q[2] # 0

IsNaN(q) == q = NaN

\* the float of the fraction n / d, d # 0
Frac(n, d) ==
    LET g == Gcd(Abs(n), Abs(d))
    IN  <<Sign(d) * (n \div g), Abs(d) \div g>>

\* the float of an integer
R(n) == <<n, 1>>

Zero == R(0)

FNeg(a) == <<-a[1], a[2]>>

\* IEEE addition: NaN propagates, inf + -inf is NaN
FAdd(a, b) ==
    IF IsNaN(a) \/ IsNaN(b) THEN NaN
    ELSE IF ~IsFinite(a) THEN (IF ~IsFinite(b) /\ a # b THEN NaN ELSE a)
    ELSE IF ~IsFinite(b) THEN b
    ELSE Frac(a[1] * b[2] + b[1] * a[2], a[2] * b[2])

FSub(a, b) == FAdd(a, FNeg(b))

\* IEEE multiplication: NaN propagates, inf * 0 is NaN
FMul(a, b) ==
    IF IsNaN(a) \/ IsNaN(b) THEN NaN
    ELSE IF ~IsFinite(a) \/ ~IsFinite(b)
         THEN (IF a[1] = 0 \/ b[1] = 0 THEN NaN ELSE Inf(Sign(a[1]) * Sign(b[1])))
    ELSE Frac(a[1] * b[1], a[2] * b[2])

\* IEEE division: x/0 is +-inf, 0/0 and anything with NaN is NaN
FDiv(a, b) ==
    IF IsNaN(a) \/ IsNaN(b) THEN NaN
    ELSE IF ~IsFinite(a) THEN (IF ~IsFinite(b) THEN NaN
                               ELSE Inf(a[1] * (IF b[1] < 0 THEN -1 ELSE 1)))
    ELSE IF ~IsFinite(b) THEN Zero
    ELSE IF b[1] = 0 THEN (IF a[1] = 0 THEN NaN ELSE Inf(Sign(a[1])))
    ELSE Frac(a[1] * b[2], a[2] * b[1])

RECURSIVE FSum(_)
FSum(s) == IF s = <<>> THEN Zero ELSE FAdd(Head(s), FSum(Tail(s)))

RECURSIVE ISum(_)
ISum(s) == IF s = <<>> THEN 0 ELSE Head(s) + ISum(Tail(s))

-----------------------------------------------------------------------------
(* Dense linear algebra on sequences of rows *)

\* np.dot of two vectors
Dot(u, v) == FSum([i \in 1..Len(u) |-> FMul(u[i], v[i])])

Col(M, j) == [i \in 1..Len(M) |-> M[i][j]]

\* M.T for a matrix with n columns (n is given: M may have no row)
Transpose(M, n) == [j \in 1..n |-> Col(M, j)]

\* np.dot(M, N) where N has n columns
MatMul(M, N, n) ==
    [i \in 1..Len(M) |-> [j \in 1..n |-> Dot(M[i], Col(N, j))]]

\* np.dot(M, v) for a vector v
MatVec(M, v) == [i \in 1..Len(M) |-> Dot(M[i], v)]

IsZeroVec(v) == \A i \in 1..Len(v) : v[i] = Zero

\* the one element of a singleton set (binds a computed value to a name)
Only(S) == CHOOSE x \in S : TRUE

\* Greville's step: the pseudo-inverse of [A_(k-1) | a] from P, the
\* pseudo-inverse of A_(k-1); d = P a, c = a - A_(k-1) d is the part of a
\* outside the range of A_(k-1)
PinvRow(P, m, k, d, b) ==
    [r \in 1..k |->
        IF r = k THEN b
        ELSE [i \in 1..m |-> FSub(P[r][i], FMul(d[r], b[i]))]]

PinvLast(P, m, d, c) ==
    IF ~IsZeroVec(c)
    THEN Only({[i \in 1..m |-> FDiv(c[i], cc)] : cc \in {Dot(c, c)}})
    ELSE Only({[i \in 1..m |-> FDiv(Dot(d, Col(P, i)), dd)] :
                  dd \in {FAdd(R(1), Dot(d, d))}})

PinvStep(A, m, k, P) ==
    Only({ Only({ Only({ PinvRow(P, m, k, d, b) : b \in {PinvLast(P, m, d, c)} })
                  : c \in {[i \in 1..m |->
                              FSub(A[i][k], Dot([j \in 1..(k - 1) |-> A[i][j]], d))]} })
           : d \in {MatVec(P, Col(A, k))} })

\* Moore-Penrose pseudo-inverse of the m x k matrix made of the first k
\* columns of A (rows A[1..m]), by Greville's column recursion.  The result
\* is k x m.
RECURSIVE Pinv(_, _, _)
Pinv(A, m, k) ==
    IF k = 0 THEN <<>>
    ELSE Only({PinvStep(A, m, k, P) : P \in {Pinv(A, m, k - 1)}})

\* linalg.lstsq(A, B)[0]: the minimum-norm least-squares solution X of
\* A X = B, A is m x n, B is m x t, X is n x t
lstsq(A, m, n, B, t) == MatMul(Pinv(A, m, n), B, t)

-----------------------------------------------------------------------------
(* State *)

VARIABLES
    pc,                 \* position of the running call
    error,              \* message of the exception raised, "" when none
    \* apply_regions / unapply_regions
    voxel_signals,      \* (instant, voxel) matrix
    regions,            \* (region, voxel) matrix of weights
    normalize_regions,  \* boolean argument of apply_regions
    region_signals,     \* (instant, region) matrix returned by apply_regions
    voxel_series,       \* (instant, voxel) matrix returned by unapply_regions
    \* signals_from_labels / img_from_labels / signals_from_maps
    niimgs,             \* 4D image: shape, affine, data[voxel][instant]
    labels_img,         \* 3D image of labels: shape, affine, data[voxel]
    maps_img,           \* 4D image of maps: shape, affine, data[voxel][region]
    mask_img,           \* 3D image, or None
    background_label,
    labels_data,        \* local: the labels, masked in a private copy
    labels,             \* the list of labels returned
    signals,            \* the (instant, region) matrix returned
    img,                \* the image returned by img_from_labels
    maps_data,          \* local of signals_from_maps
    \* _trim_maps
    maps,               \* argument: maps[voxel][region]
    mask,               \* argument: mask[voxel]
    trimmed_maps,       \* returned: trimmed_maps[voxel][kept region]
    maps_mask,          \* returned: maps_mask[voxel]
    indices,            \* returned: region numbers kept (counted from 0)
    \* regions_are_overlapping
    region_rows,        \* the regions called on, as rows of weights
    overlap_arg,        \* argument `regions`: its type, ndim and data
    predicate,          \* returned
    \* regions_to_mask
    regions_img,        \* argument: kind, volumes / image, cursor of a generator
    threshold,
    background,
    loop_pos,           \* number of items the for loop has taken
    output              \* the mask under construction / returned

solverVars == <<voxel_signals, regions, normalize_regions, region_signals,
                voxel_series>>

extractVars == <<niimgs, labels_img, maps_img, mask_img, background_label,
                 labels_data, labels, signals, img, maps_data>>

trimVars == <<maps, mask, trimmed_maps, maps_mask, indices>>

overlapVars == <<region_rows, overlap_arg, predicate>>

mergeVars == <<regions_img, threshold, background, loop_pos, output>>

vars == <<pc, error, solverVars, extractVars, trimVars, overlapVars, mergeVars>>

\* a value not computed yet
Unset == <<>>

Voxels(n) == 1..n

Instants == 1..NInstants

\* the variables of the functions that are not running
IdleSolver ==
    /\ voxel_signals = Unset /\ regions = Unset /\ normalize_regions = FALSE
    /\ region_signals = Unset /\ voxel_series = Unset

IdleExtract ==
    /\ niimgs = Unset /\ labels_img = Unset /\ maps_img = Unset
    /\ mask_img = Unset /\ background_label = 0 /\ labels_data = Unset
    /\ labels = Unset /\ signals = Unset /\ img = Unset /\ maps_data = Unset

IdleTrim ==
    /\ maps = Unset /\ mask = Unset /\ trimmed_maps = Unset
    /\ maps_mask = Unset /\ indices = Unset

IdleOverlap ==
    /\ region_rows = Unset /\ overlap_arg = Unset /\ predicate = FALSE

IdleMerge ==
    /\ regions_img = Unset /\ threshold = Zero /\ background = 0
    /\ loop_pos = 0 /\ output = Unset

\* all (rows, cols) matrices with entries in S
Matrices(rows, cols, S) == [1..rows -> [1..cols -> S]]

-----------------------------------------------------------------------------
(* Weighted-map solver: apply_regions, unapply_regions *)

\* weights found in region definitions
Weights == {R(-1), R(0), R(1), R(2)}

\* values of the voxel time series
SignalValues == {R(0), R(1), R(2)}

\* regions.sum(axis=1): the sum of each row
RowSums(M) == [r \in 1..Len(M) |-> FSum(M[r])]

\* (regions ** 2).sum(axis=1)
RowSquareSums(M) == [r \in 1..Len(M) |-> Dot(M[r], M[r])]

\* region_signals *= ...: the factor is applied the wrong way round
NormalizeTimes(sig, regs) ==
    [t \in 1..Len(sig) |->
        [r \in 1..Len(regs) |->
            FMul(sig[t][r], FDiv(RowSums(regs)[r], RowSquareSums(regs)[r]))]]

\* region_signals /= regions.sum(axis=1) / (regions ** 2).sum(axis=1)
\* the (region,) vector broadcasts over the rows (instants)
Normalize(sig, regs) ==
    [t \in 1..Len(sig) |->
        [r \in 1..Len(regs) |->
            FDiv(sig[t][r], FDiv(RowSums(regs)[r], RowSquareSums(regs)[r]))]]

\* the projection np.dot(voxel_signals, regions.T) in place of the
\* least-squares solution
apply_regions_dot(vs, regs, normalize, nvox) ==
    LET prj == MatMul(vs, Transpose(regs, nvox), Len(regs))
    IN  IF normalize THEN Normalize(prj, regs) ELSE prj

apply_regions(vs, regs, normalize, nvox) ==
    LET lsq == Transpose(lstsq(Transpose(regs, nvox), nvox, Len(regs),
                               Transpose(vs, nvox), Len(vs)),
                         Len(vs))
    IN  IF normalize THEN Normalize(lsq, regs) ELSE lsq

unapply_regions(sig, regs, nvox) == MatMul(sig, regs, nvox)

InitSolver ==
    /\ pc = "solver"
    /\ \E n \in 1..MaxRegions : regions \in Matrices(n, NVox, Weights)
    /\ voxel_signals \in Matrices(NInstants, NVox, SignalValues)
    /\ normalize_regions \in BOOLEAN
    /\ region_signals = Unset
    /\ voxel_series = Unset
    /\ error = ""
    /\ IdleExtract /\ IdleTrim /\ IdleOverlap /\ IdleMerge

ApplyRegions ==
    /\ pc = "solver"
    /\ region_signals' = apply_regions(voxel_signals, regions,
                                       normalize_regions, NVox)
    /\ pc' = "applied"
    /\ UNCHANGED <<voxel_signals, regions, normalize_regions, voxel_series>>
    /\ UNCHANGED <<error, extractVars, trimVars, overlapVars, mergeVars>>

UnapplyRegions ==
    /\ pc = "applied"
    /\ voxel_series' = unapply_regions(region_signals, regions, NVox)
    /\ pc' = "unapplied"
    /\ UNCHANGED <<voxel_signals, regions, normalize_regions, region_signals>>
    /\ UNCHANGED <<error, extractVars, trimVars, overlapVars, mergeVars>>

NextSolver == ApplyRegions \/ UnapplyRegions

SpecSolver == InitSolver /\ [][NextSolver]_vars

(* Properties of the solver *)

\* the voxels of region r: those with a non-zero weight
RegionVoxels(r) == {v \in Voxels(NVox) : regions[r][v] # Zero}

\* regions do not overlap and every voxel has weight 1 in exactly one region
UnitPartition ==
    \A v \in Voxels(NVox) :
        /\ \E r \in 1..Len(regions) : regions[r][v] = R(1)
        /\ \A r \in 1..Len(regions) : regions[r][v] \in {Zero, R(1)}
        /\ \A r1, r2 \in 1..Len(regions) :
              regions[r1][v] # Zero /\ regions[r2][v] # Zero => r1 = r2

\* at instant t all the voxels of region r carry the value c
UniformOn(r, t, c) == \A v \in RegionVoxels(r) : voxel_signals[t][v] = c

\* at every instant the signal is the same on all the voxels of each region
UniformPerRegion ==
    \A r \in 1..Len(regions), t \in Instants :
        \E c \in SignalValues : UniformOn(r, t, c)

\* C3 as stated: on a unit partition, apply_regions (normalize off) then
\* unapply_regions gives back the voxel signals, whatever they are
C3_RoundTripAnySignal ==
    (pc = "unapplied" /\ ~normalize_regions /\ UnitPartition)
        => voxel_series = voxel_signals

\* C3 amended: on a unit partition, for voxel signals that are, at every
\* instant, identical on all the voxels of each region, apply_regions
\* (normalize off) then unapply_regions gives back the voxel signals
C3_RoundTripUniform ==
    (pc = "unapplied" /\ ~normalize_regions /\ UnitPartition /\ UniformPerRegion)
        => voxel_series = voxel_signals

C3_Witness ==
    /\ pc = "unapplied" /\ ~normalize_regions /\ UnitPartition /\ UniformPerRegion
    /\ \E r \in 1..Len(regions) : Cardinality(RegionVoxels(r)) >= 2
    /\ voxel_series = voxel_signals
    /\ \E v \in Voxels(NVox) : voxel_signals[1][v] # Zero

Alone(r) ==
    \A q \in 1..Len(regions) : q # r => RegionVoxels(q) \cap RegionVoxels(r) = {}

-----------------------------------------------------------------------------
(* Images: shape, affine and data *)

\* tolerance on the entries of affines (1e-9, in units of 1e-9)
AffineTol == 1

\* two 3D shapes with the same number of voxels
ShapeA == <<NVox, 1, 1>>

ShapeB == <<1, NVox, 1>>

Shapes == {ShapeA, ShapeB}

AffineIdx == (1..4) \X (1..4)

Affine0 == [ij \in AffineIdx |-> 0]

Shifted(a, ij, d) == [a EXCEPT ![ij] = @ + d]

Affines ==
    {Shifted(Affine0, ij, d) : ij \in {<<1, 1>>, <<4, 4>>}, d \in {-2, 0, 1, 2}}

SetMax(S) == CHOOSE x \in S : \A y \in S : y <= x

\* abs(a - b).max()
AffineDiff(a, b) == SetMax({Abs(a[ij] - b[ij]) : ij \in AffineIdx})

Image(shape, affine, data) == [shape |-> shape, affine |-> affine, data |-> data]

\* utils._get_shape(niimg)[:3]
Shape3(image) == SubSeq(image.shape, 1, 3)

\* mask_img=None
None == Image(<<>>, <<>>, <<>>)

\* bool(x) of a mask entry
Truthy(x) == x # 0

-----------------------------------------------------------------------------
(* _trim_maps *)

FAbs(q) == <<Abs(q[1]), q[2]>>

\* q > 0 for a finite q
Positive(q) == q[1] > 0

\* abs(maps).sum over all the voxels, the mask forgotten
TrimSums_unmasked(mps, msk, nreg) ==
    [n \in 1..nreg |-> FSum([v \in 1..Len(mps) |-> FAbs(mps[v][n])])]

\* abs(maps[mask, :]).sum(axis=0)
TrimSums(mps, msk, nreg) ==
    [n \in 1..nreg |->
        FSum([v \in 1..Len(mps) |->
                 IF Truthy(msk[v]) THEN FAbs(mps[v][n]) ELSE Zero])]

\* trimmed_maps[..., p] = maps[..., n]: the map is copied out of the mask too
TrimBody_unmasked(mps, msk, sums, n, acc) ==
    IF sums[n] = Zero THEN acc
    ELSE [trimmed_maps |-> [v \in 1..Len(mps) |->
                              [q \in 1..Len(acc.trimmed_maps[v]) |->
                                  IF q = acc.p + 1 THEN mps[v][n]
                                  ELSE acc.trimmed_maps[v][q]]],
          maps_mask |-> [v \in 1..Len(mps) |->
                            IF Positive(mps[v][n]) THEN 1 ELSE acc.maps_mask[v]],
          p |-> acc.p + 1]

\* maps_mask[trimmed_maps[..., p] != 0] = 1: negative weights are marked too
TrimBody_nonzero(mps, msk, sums, n, acc) ==
    IF sums[n] = Zero THEN acc
    ELSE [trimmed_maps |-> [v \in 1..Len(mps) |->
                              [q \in 1..Len(acc.trimmed_maps[v]) |->
                                  IF q = acc.p + 1 /\ Truthy(msk[v]) THEN mps[v][n]
                                  ELSE acc.trimmed_maps[v][q]]],
          maps_mask |-> [v \in 1..Len(mps) |->
                            IF Truthy(msk[v]) /\ mps[v][n] # Zero THEN 1
                            ELSE acc.maps_mask[v]],
          p |-> acc.p + 1]

\* the body of the loop on maps for the map numbered n (from 1), acc holds
\* trimmed_maps, maps_mask and p
TrimBody(mps, msk, sums, n, acc) ==
    IF sums[n] = Zero THEN acc
    ELSE Only({ [trimmed_maps |-> tm,
                 maps_mask |-> [v \in 1..Len(mps) |->
                                   IF Positive(tm[v][acc.p + 1]) THEN 1
                                   ELSE acc.maps_mask[v]],
                 p |-> acc.p + 1]
                : tm \in {[v \in 1..Len(mps) |->
                             [q \in 1..Len(acc.trimmed_maps[v]) |->
                                 IF q = acc.p + 1 /\ Truthy(msk[v])
                                 THEN mps[v][n]
                                 ELSE acc.trimmed_maps[v][q]]]} })

RECURSIVE TrimLoop(_, _, _, _, _, _)
TrimLoop(mps, msk, sums, nreg, n, acc) ==
    IF n > nreg THEN acc
    ELSE Only({ TrimLoop(mps, msk, sums, nreg, n + 1, a)
                : a \in {TrimBody(mps, msk, sums, n, acc)} })

\* np.where(sums > 0)[0]
WherePositive(sums) ==
    LET F[n \in 0..Len(sums)] ==
            IF n = 0 THEN <<>>
            ELSE IF Positive(sums[n]) THEN Append(F[n - 1], n - 1) ELSE F[n - 1]
    IN  F[Len(sums)]

\* _trim_maps(maps, mask) for maps[voxel][region] with nreg regions:
\* trimmed_maps, maps_mask, indices
_trim_maps(mps, msk, nreg) ==
    Only({ Only({ [trimmed_maps |-> acc.trimmed_maps,
                   maps_mask |-> acc.maps_mask,
                   indices |-> WherePositive(sums)]
                  : acc \in {TrimLoop(mps, msk, sums, nreg, 1,
                       [trimmed_maps |->
                            [v \in 1..Len(mps) |->
                                [q \in 1..Cardinality({n \in 1..nreg : Positive(sums[n])})
                                     |-> Zero]],
                        maps_mask |-> [v \in 1..Len(mps) |-> 0],
                        p |-> 0])} })
           : sums \in {TrimSums(mps, msk, nreg)} })

\* weights of the maps given to _trim_maps
MapWeights == {R(-1), R(0), R(1)}

MaskValues == {0, 1}

InitTrim ==
    /\ pc = "trim"
    /\ error = ""
    /\ \E n \in 1..MaxRegions : maps \in Matrices(NVox, n, MapWeights)
    /\ mask \in [1..NVox -> MaskValues]
    /\ trimmed_maps = Unset /\ maps_mask = Unset /\ indices = Unset
    /\ IdleSolver /\ IdleExtract /\ IdleOverlap /\ IdleMerge

TrimMaps ==
    /\ pc = "trim"
    /\ \E res \in {_trim_maps(maps, mask, Len(maps[1]))} :
          /\ trimmed_maps' = res.trimmed_maps
          /\ maps_mask' = res.maps_mask
          /\ indices' = res.indices
    /\ pc' = "trimmed"
    /\ UNCHANGED <<maps, mask, error, solverVars, extractVars, overlapVars,
                   mergeVars>>

NextTrim == TrimMaps

SpecTrim == InitTrim /\ [][NextTrim]_vars

(* Properties of _trim_maps *)

NMaps == Len(maps[1])

\* sum of the absolute weights of map n (from 1) on the voxels of the mask
InMaskWeight(n) ==
    FSum([v \in 1..NVox |-> IF mask[v] # 0 THEN FAbs(maps[v][n]) ELSE Zero])

KeptMaps == {n \in 1..NMaps : \E v \in 1..NVox : mask[v] # 0 /\ maps[v][n] # Zero}

\* C5: a map is kept iff its absolute weight in the mask is positive; the
\* number of output maps is the number of kept maps and the length of
\* indices; indices is strictly increasing within range(number of maps);
\* inside the mask output map p is input map indices[p]
C5_Compaction ==
    pc = "trimmed" =>
        /\ \A n \in 1..NMaps :
              (\E p \in 1..Len(indices) : indices[p] = n - 1)
                  <=> Positive(InMaskWeight(n))
        /\ \A n \in 1..NMaps : Positive(InMaskWeight(n)) <=> n \in KeptMaps
        /\ Len(indices) = Cardinality(KeptMaps)
        /\ \A v \in 1..NVox : Len(trimmed_maps[v]) = Len(indices)
        /\ \A p \in 1..Len(indices) : indices[p] \in 0..(NMaps - 1)
        /\ \A p, q \in 1..Len(indices) : p < q => indices[p] < indices[q]
        /\ \A p \in 1..Len(indices), v \in 1..NVox :
              mask[v] # 0 => trimmed_maps[v][p] = maps[v][indices[p] + 1]

C5_Witness ==
    /\ pc = "trimmed"
    /\ NMaps >= 2
    /\ Len(indices) = 1 /\ indices[1] = NMaps - 1
    /\ \E v \in 1..NVox : mask[v] = 0 /\ maps[v][1] # Zero

\* C6: every map returned is zero outside the mask and equal to the input
\* map it comes from inside the mask
C6_MaskConsistency ==
    pc = "trimmed" =>
        \A p \in 1..Len(indices), v \in 1..NVox :
            trimmed_maps[v][p] =
                IF mask[v] # 0 THEN maps[v][indices[p] + 1] ELSE Zero

C6_Witness ==
    /\ pc = "trimmed"
    /\ \E p \in 1..Len(indices), v \in 1..NVox :
          /\ mask[v] = 0
          /\ maps[v][indices[p] + 1] # Zero
          /\ trimmed_maps[v][p] = Zero

-----------------------------------------------------------------------------
(* signals_from_labels, img_from_labels *)

SetMin(S) == CHOOSE x \in S : \A y \in S : x <= y

\* the elements of a set of numbers in ascending order
RECURSIVE SortedSeq(_)
SortedSeq(S) ==
    IF S = {} THEN <<>> ELSE <<SetMin(S)>> \o SortedSeq(S \ {SetMin(S)})

\* the distinct values in the order of their first place in the volume
FirstSeen(data) ==
    LET F[n \in 0..Len(data)] ==
            IF n = 0 THEN <<>>
            ELSE IF \E i \in 1..Len(F[n - 1]) : F[n - 1][i] = data[n]
                 THEN F[n - 1]
                 ELSE Append(F[n - 1], data[n])
    IN  F[Len(data)]

\* list(np.unique(labels_data))
Unique(data) == SortedSeq({data[v] : v \in 1..Len(data)})

\* labels.remove(x): the first x is taken out of the list
RECURSIVE Remove(_, _)
Remove(list, x) ==
    IF list = <<>> THEN <<>>
    ELSE IF Head(list) = x THEN Tail(list)
    ELSE <<Head(list)>> \o Remove(Tail(list), x)

Contains(list, x) == \E i \in 1..Len(list) : list[i] = x

\* labels_data, and with a mask the copy where every voxel out of the mask
\* holds background_label
MaskedLabels(limg, mimg, bg) ==
    IF mimg # None
    THEN [v \in 1..Len(limg.data) |->
             IF ~Truthy(mimg.data[v]) THEN bg ELSE limg.data[v]]
    ELSE limg.data

\* the labels are listed in the order they are met, not sorted
LabelList_unsorted(ldata, bg) ==
    IF Contains(FirstSeen(ldata), bg) THEN Remove(FirstSeen(ldata), bg)
    ELSE FirstSeen(ldata)

\* the list of labels: unique (sorted), background_label removed
LabelList(ldata, bg) ==
    IF Contains(Unique(ldata), bg) THEN Remove(Unique(ldata), bg)
    ELSE Unique(ldata)

\* ndimage.measurements.mean(img, labels=ldata, index=index) on the volume
\* of instant t: sum / count for every label of index
LabelMeans(data, t, ldata, index) ==
    [n \in 1..Len(index) |->
        FDiv(R(ISum([v \in 1..Len(ldata) |->
                        IF ldata[v] = index[n] THEN data[v][t] ELSE 0])),
             R(Cardinality({v \in 1..Len(ldata) : ldata[v] = index[n]})))]

\* number of instants of a 4D image
NScans(image) == image.shape[4]

\* every region gets the signal of the first one
Broadcast_first(sig, ldata, lablist) ==
    [v \in 1..Len(ldata) |->
        [t \in 1..Len(sig) |->
            IF Contains(lablist, ldata[v]) THEN sig[t][1] ELSE Zero]]

\* data = zeros; for n, label in enumerate(labels):
\*     data[labels_data == label, :] = signals[:, n]
Broadcast(sig, ldata, lablist) ==
    [v \in 1..Len(ldata) |->
        [t \in 1..Len(sig) |->
            IF Contains(lablist, ldata[v])
            THEN sig[t][CHOOSE n \in 1..Len(lablist) : lablist[n] = ldata[v]]
            ELSE Zero]]

\* the outcome of img_from_labels: an error message, or the image
img_from_labels(sig, limg, mimg, bg) ==
    IF mimg # None /\ mimg.shape # Shape3(limg)
    THEN [error |-> "mask_img and labels_img shapes must be identical.",
          img |-> Unset]
    ELSE IF mimg # None /\ AffineDiff(mimg.affine, limg.affine) > AffineTol
    THEN [error |-> "mask_img and labels_img affines must be identical",
          img |-> Unset]
    ELSE [error |-> "",
          img |-> Image(Shape3(limg) \o <<Len(sig)>>, limg.affine,
                        Broadcast(sig, MaskedLabels(limg, mimg, bg),
                                  LabelList(MaskedLabels(limg, mimg, bg), bg)))]

\* the shapes are compared and the affines are not
CheckAgainst_noaffine(name, image, target) ==
    IF Shape3(image) # Shape3(target)
    THEN name \o " and niimgs shapes must be identical."
    ELSE ""

\* the shape, then the affine, of an image against those of niimgs: the
\* message of the ValueError raised, "" when they fit
CheckAgainst(name, image, target) ==
    IF Shape3(image) # Shape3(target)
    THEN name \o " and niimgs shapes must be identical."
    ELSE IF AffineDiff(image.affine, target.affine) > AffineTol
    THEN name \o " and niimgs affines must be identical"
    ELSE ""

Raise(msg) == pc' = "error" /\ error' = msg

\* signals_from_labels: labels_img against niimgs
SflCheckLabels ==
    /\ pc = "signals_from_labels"
    /\ IF CheckAgainst("labels_img", labels_img, niimgs) # ""
       THEN Raise(CheckAgainst("labels_img", labels_img, niimgs))
       ELSE pc' = "sfl_check_mask" /\ error' = error
    /\ UNCHANGED <<solverVars, extractVars, trimVars, overlapVars, mergeVars>>

\* signals_from_labels: mask_img, when given, against niimgs
SflCheckMask ==
    /\ pc = "sfl_check_mask"
    /\ IF mask_img # None /\ CheckAgainst("mask_img", mask_img, niimgs) # ""
       THEN Raise(CheckAgainst("mask_img", mask_img, niimgs))
       ELSE pc' = "sfl_mask_labels" /\ error' = error
    /\ UNCHANGED <<solverVars, extractVars, trimVars, overlapVars, mergeVars>>

\* signals_from_labels: the labels are masked
SflMaskLabels ==
    /\ pc = "sfl_mask_labels"
    /\ labels_data' = MaskedLabels(labels_img, mask_img, background_label)
    /\ pc' = "sfl_list_labels"
    /\ UNCHANGED <<error, niimgs, labels_img, maps_img, mask_img,
                   background_label, labels, signals, img, maps_data>>
    /\ UNCHANGED <<solverVars, trimVars, overlapVars, mergeVars>>

\* signals_from_labels: the labels are listed
SflListLabels ==
    /\ pc = "sfl_list_labels"
    /\ labels' = LabelList(labels_data, background_label)
    /\ pc' = "sfl_means"
    /\ UNCHANGED <<error, niimgs, labels_img, maps_img, mask_img,
                   background_label, labels_data, signals, img, maps_data>>
    /\ UNCHANGED <<solverVars, trimVars, overlapVars, mergeVars>>

\* signals_from_labels: one row of means per instant; the call returns
SflMeans ==
    /\ pc = "sfl_means"
    /\ signals' = [t \in 1..NScans(niimgs) |->
                      LabelMeans(niimgs.data, t, labels_data, labels)]
    /\ pc' = "sfl_done"
    /\ UNCHANGED <<error, niimgs, labels_img, maps_img, mask_img,
                   background_label, labels_data, labels, img, maps_data>>
    /\ UNCHANGED <<solverVars, trimVars, overlapVars, mergeVars>>

\* img_from_labels on the signals returned, with the same labels_img,
\* mask_img and background_label
ImgFromLabels ==
    /\ pc = "sfl_done"
    /\ \E res \in {img_from_labels(signals, labels_img, mask_img,
                                   background_label)} :
          /\ img' = res.img
          /\ error' = res.error
          /\ pc' = IF res.error = "" THEN "ifl_done" ELSE "error"
    /\ UNCHANGED <<niimgs, labels_img, maps_img, mask_img, background_label,
                   labels_data, labels, signals, maps_data>>
    /\ UNCHANGED <<solverVars, trimVars, overlapVars, mergeVars>>

-----------------------------------------------------------------------------
(* signals_from_maps *)

\* the rows of a [voxel][...] array at the voxels selected by a mask, in
\* raster order: array[mask, :]
RECURSIVE Select(_, _)
Select(array, msk) ==
    IF array = <<>> THEN <<>>
    ELSE (IF Truthy(Head(msk)) THEN <<Head(array)>> ELSE <<>>)
         \o Select(Tail(array), Tail(msk))

\* number of maps of a 4D image of maps
NMapsOf(image) == image.shape[4]

\* signals_from_maps: maps_img against niimgs
SfmCheckMaps ==
    /\ pc = "signals_from_maps"
    /\ IF CheckAgainst("maps_img", maps_img, niimgs) # ""
       THEN Raise(CheckAgainst("maps_img", maps_img, niimgs))
       ELSE pc' = "sfm_check_mask" /\ error' = error
    /\ UNCHANGED <<solverVars, extractVars, trimVars, overlapVars, mergeVars>>

\* signals_from_maps: mask_img, when given, against niimgs
SfmCheckMask ==
    /\ pc = "sfm_check_mask"
    /\ IF mask_img # None /\ CheckAgainst("mask_img", mask_img, niimgs) # ""
       THEN Raise(CheckAgainst("mask_img", mask_img, niimgs))
       ELSE pc' = "sfm_trim" /\ error' = error
    /\ UNCHANGED <<solverVars, extractVars, trimVars, overlapVars, mergeVars>>

\* signals_from_maps: the maps are trimmed to the mask, or, without a mask,
\* all the voxels are kept
SfmTrim ==
    /\ pc = "sfm_trim"
    /\ IF mask_img # None
       THEN \E res \in {_trim_maps(maps_img.data, mask_img.data,
                                   NMapsOf(maps_img))} :
               /\ maps_data' = res.trimmed_maps
               /\ maps_mask' = [v \in 1..Len(res.maps_mask) |->
                                   Truthy(res.maps_mask[v])]
       ELSE /\ maps_data' = maps_img.data
            /\ maps_mask' = [v \in 1..Len(maps_img.data) |-> TRUE]
    /\ pc' = "sfm_lstsq"
    /\ UNCHANGED <<error, niimgs, labels_img, maps_img, mask_img,
                   background_label, labels_data, labels, signals, img>>
    /\ UNCHANGED <<solverVars, maps, mask, trimmed_maps, indices, overlapVars,
                   mergeVars>>

BoolMask(msk) == [v \in 1..Len(msk) |-> IF msk[v] THEN 1 ELSE 0]

\* signals_from_maps: the least-squares solution; the call returns
SfmLstsq ==
    /\ pc = "sfm_lstsq"
    /\ \E A \in {Select(maps_data, BoolMask(maps_mask))},
          B \in {Select([v \in 1..Len(niimgs.data) |->
                            [t \in 1..NScans(niimgs) |-> R(niimgs.data[v][t])]],
                        BoolMask(maps_mask))} :
          signals' = Transpose(lstsq(A, Len(A), Len(maps_data[1]), B,
                                     NScans(niimgs)),
                               NScans(niimgs))
    /\ pc' = "sfm_done"
    /\ UNCHANGED <<error, niimgs, labels_img, maps_img, mask_img,
                   background_label, labels_data, labels, img, maps_data>>
    /\ UNCHANGED <<solverVars, trimVars, overlapVars, mergeVars>>

-----------------------------------------------------------------------------
(* The extraction calls checked *)

LabelValues == {0, 1, 2}

DataValues == {1, 2}

\* extraction from labels on images that fit: any labels, mask, background
InitLabels ==
    /\ pc = "signals_from_labels"
    /\ niimgs \in {Image(ShapeA \o <<NInstants>>, Affine0, d) :
                      d \in Matrices(NVox, NInstants, DataValues)}
    /\ labels_img \in {Image(ShapeA, Affine0, d) : d \in [1..NVox -> LabelValues]}
    /\ mask_img \in {None} \cup
                    {Image(ShapeA, Affine0, d) : d \in [1..NVox -> MaskValues]}
    /\ background_label \in {0, 1}
    /\ maps_img = Unset

\* images of all shapes and affines, on fixed data
FixedData == [v \in 1..NVox |-> [t \in 1..NInstants |-> 1 + ((v + t) % 2)]]

FixedLabels == [v \in 1..NVox |-> v % 2]

FixedMask == [v \in 1..NVox |-> IF v = 1 THEN 1 ELSE 0]

FixedMaps == [v \in 1..NVox |-> [n \in 1..MaxRegions |-> R((v + n) % 2)]]

InitValidate ==
    /\ niimgs \in {Image(sh \o <<NInstants>>, af, FixedData) :
                      sh \in Shapes,
                      af \in {Affine0, Shifted(Affine0, <<1, 1>>, 1)}}
    /\ mask_img \in {None} \cup
                    {Image(sh, af, FixedMask) : sh \in Shapes, af \in Affines}
    /\ background_label = 0
    /\ \/ /\ pc = "signals_from_labels"
          /\ labels_img \in {Image(sh, af, FixedLabels) :
                                sh \in Shapes, af \in Affines}
          /\ maps_img = Unset
       \/ /\ pc = "signals_from_maps"
          /\ maps_img \in {Image(sh \o <<MaxRegions>>, af, FixedMaps) :
                              sh \in Shapes, af \in Affines}
          /\ labels_img = Unset

InitExtract ==
    /\ InitLabels \/ InitValidate
    /\ error = ""
    /\ labels_data = Unset /\ labels = Unset /\ signals = Unset
    /\ img = Unset /\ maps_data = Unset
    /\ IdleSolver /\ IdleTrim /\ IdleOverlap /\ IdleMerge

NextExtract ==
    \/ SflCheckLabels \/ SflCheckMask \/ SflMaskLabels \/ SflListLabels
    \/ SflMeans \/ ImgFromLabels
    \/ SfmCheckMaps \/ SfmCheckMask \/ SfmTrim \/ SfmLstsq

SpecExtract == InitExtract /\ [][NextExtract]_vars

(* Properties of the extraction *)

\* the voxel is in the mask given (every voxel when there is none)
InMask(v) == mask_img = None \/ mask_img.data[v] # 0

\* the in-mask voxels that hold the label
VoxelsOf(label) == {v \in 1..NVox : InMask(v) /\ labels_img.data[v] = label}

\* the labels of the in-mask voxels, background_label left out
LabelsPresent ==
    {labels_img.data[v] : v \in {w \in 1..NVox : InMask(w)}} \ {background_label}

\* the sum at instant t of the values of a set of voxels
RECURSIVE SumOver(_, _)
SumOver(S, t) ==
    IF S = {} THEN 0
    ELSE LET v == CHOOSE w \in S : TRUE
         IN  niimgs.data[v][t] + SumOver(S \ {v}, t)

\* C2: the labels returned are the labels of the in-mask voxels without
\* background_label, in strictly ascending order; signals has one column
\* per label; signals[t][n] is the arithmetic mean at instant t of the
\* in-mask voxels labelled labels[n]
C2_LabelExtraction ==
    pc = "sfl_done" =>
        /\ {labels[n] : n \in 1..Len(labels)} = LabelsPresent
        /\ \A m, n \in 1..Len(labels) : m < n => labels[m] < labels[n]
        /\ Len(signals) = NInstants
        /\ \A t \in 1..NInstants :
              /\ Len(signals[t]) = Len(labels)
              /\ \A n \in 1..Len(labels) :
                    /\ IsFinite(signals[t][n])
                    /\ signals[t][n][1] * Cardinality(VoxelsOf(labels[n]))
                          = SumOver(VoxelsOf(labels[n]), t) * signals[t][n][2]

C2_Witness ==
    /\ pc = "sfl_done"
    /\ mask_img # None /\ background_label = 1
    /\ \E v \in 1..NVox : mask_img.data[v] = 0 /\ labels_img.data[v] = 2
    /\ labels = <<0>>
    /\ signals[1][1] \in {R(1), R(2)}

\* at every instant the voxels that share a label hold one value
UniformPerLabel ==
    \A v, w \in 1..NVox, t \in 1..NInstants :
        labels_img.data[v] = labels_img.data[w]
            => niimgs.data[v][t] = niimgs.data[w][t]

\* C1: when the voxels that share a label hold one value at every instant,
\* signals_from_labels then img_from_labels (same labels, mask and
\* background_label) give the original value on every in-mask voxel whose
\* label is not the background, and zero on every other voxel
C1_LabelRoundTrip ==
    (pc = "ifl_done" /\ UniformPerLabel) =>
        \A v \in 1..NVox, t \in 1..NInstants :
            img.data[v][t] =
                IF InMask(v) /\ labels_img.data[v] # background_label
                THEN R(niimgs.data[v][t])
                ELSE Zero

C1_Witness ==
    /\ pc = "ifl_done" /\ UniformPerLabel
    /\ Len(labels) = 2
    /\ \E v \in 1..NVox : img.data[v][1] = R(1)
    /\ \E v \in 1..NVox : img.data[v][1] = R(2)

\* the region definition called with: labels_img or maps_img
RegionImg == IF maps_img = Unset THEN labels_img ELSE maps_img

\* the image does not fit niimgs: another shape, or an affine entry further
\* than the tolerance
Misfit(image) ==
    \/ Shape3(image) # Shape3(niimgs)
    \/ \E ij \in AffineIdx : Abs(image.affine[ij] - niimgs.affine[ij]) > AffineTol

BadInput == Misfit(RegionImg) \/ (mask_img # None /\ Misfit(mask_img))

\* the positions of the calls before and at their checks
Checking ==
    pc \in {"signals_from_labels", "sfl_check_mask",
            "signals_from_maps", "sfm_check_mask"}

\* the numerical work of the extraction has left no trace
NothingComputed ==
    /\ labels_data = Unset /\ labels = Unset /\ signals = Unset
    /\ maps_data = Unset /\ maps_mask = Unset /\ img = Unset

ExtractionErrors ==
    {n \o m : n \in {"labels_img", "maps_img", "mask_img"},
              m \in {" and niimgs shapes must be identical.",
                     " and niimgs affines must be identical"}}

\* C9: with a region definition or a mask that does not fit niimgs, the
\* extraction ends in an error at its checks, nothing computed and nothing
\* returned; when all fit, none of these errors is raised
C9_Validation ==
    /\ BadInput => /\ Checking \/ (pc = "error" /\ error \in ExtractionErrors)
                   /\ NothingComputed
    /\ ~BadInput => ~(pc = "error" /\ error \in ExtractionErrors)

C9_Witness ==
    /\ pc = "error"
    /\ error = "labels_img and niimgs affines must be identical"
    /\ labels_img.shape = Shape3(niimgs)
    /\ AffineDiff(labels_img.affine, niimgs.affine) = 2
    /\ NothingComputed

-----------------------------------------------------------------------------
(* regions_are_overlapping *)

\* np.where(x != 0, 1, 0)
Indicator(q) == IF q # Zero THEN 1 ELSE 0

\* the weights are summed, not the indicators
_regions_are_overlapping_array_weights(regions_array) ==
    \E v \in 1..Len(regions_array) :
        FSum(regions_array[v])[1] > FSum(regions_array[v])[2]

\* regions_masked[region][voxel]
_regions_are_overlapping_masked(regions_masked) ==
    LET count == [v \in 1..Len(regions_masked[1]) |->
                     ISum([r \in 1..Len(regions_masked) |->
                              Indicator(regions_masked[r][v])])]
    IN  \E v \in 1..Len(count) : count[v] > 1

\* regions_array[voxel][region]
_regions_are_overlapping_array(regions_array) ==
    LET sum == [v \in 1..Len(regions_array) |->
                   ISum([r \in 1..Len(regions_array[v]) |->
                            Indicator(regions_array[v][r])])]
    IN  SetMax({sum[v] : v \in 1..Len(sum)}) > 1

\* count += region != 0, for the regions of the list from the n-th on
RECURSIVE CountList(_, _, _)
CountList(regions_list, n, count) ==
    IF n > Len(regions_list) THEN count
    ELSE CountList(regions_list, n + 1,
                   [v \in 1..Len(count) |->
                       count[v] + Indicator(regions_list[n][v])])

\* regions_list[region][voxel]
_regions_are_overlapping_list(regions_list) ==
    LET count == CountList(regions_list, 1,
                           [v \in 1..Len(regions_list[1]) |-> 0])
    IN  SetMax({count[v] : v \in 1..Len(count)}) > 1

\* the outcome of regions_are_overlapping: an error message, or the predicate
regions_are_overlapping(arg) ==
    IF arg.type = "list"
    THEN [error |-> "", predicate |-> _regions_are_overlapping_list(arg.data)]
    ELSE IF arg.type = "ndarray"
    THEN (IF arg.ndim = 2
          THEN [error |-> "",
                predicate |-> _regions_are_overlapping_masked(arg.data)]
          ELSE IF arg.ndim = 3
          THEN [error |-> "", predicate |-> FALSE]
          ELSE IF arg.ndim = 4
          THEN [error |-> "",
                predicate |-> _regions_are_overlapping_array(arg.data)]
          ELSE [error |-> "input array may have 2 to 4 dimensions.",
                predicate |-> FALSE])
    ELSE [error |-> "type not understood", predicate |-> FALSE]

OverlapWeights == {R(-1), R(0), R(2)}

Argument(type, ndim, data) == [type |-> type, ndim |-> ndim, data |-> data]

\* the three layouts of the regions given as rows of weights
AsList(rows) == Argument("list", 0, rows)

AsMasked(rows) == Argument("ndarray", 2, rows)

AsArray(rows) == Argument("ndarray", 4, Transpose(rows, NVox))

InitOverlap ==
    /\ pc = "regions_are_overlapping"
    /\ error = ""
    /\ predicate = FALSE
    /\ \/ /\ \E n \in 1..MaxRegions :
                region_rows \in Matrices(n, NVox, OverlapWeights)
          /\ overlap_arg \in {AsList(region_rows), AsMasked(region_rows),
                              AsArray(region_rows)}
       \/ /\ region_rows = Unset
          /\ overlap_arg \in {Argument("ndarray", 3, d) :
                                 d \in [1..NVox -> LabelValues]}
       \/ /\ region_rows = Unset
          /\ overlap_arg \in {Argument("ndarray", 1, <<>>),
                              Argument("ndarray", 5, <<>>),
                              Argument("other", 0, <<>>)}
    /\ IdleSolver /\ IdleExtract /\ IdleTrim /\ IdleMerge

RegionsAreOverlapping ==
    /\ pc = "regions_are_overlapping"
    /\ \E res \in {regions_are_overlapping(overlap_arg)} :
          /\ predicate' = res.predicate
          /\ error' = res.error
          /\ pc' = IF res.error = "" THEN "overlap_done" ELSE "error"
    /\ UNCHANGED <<region_rows, overlap_arg>>
    /\ UNCHANGED <<solverVars, extractVars, trimVars, mergeVars>>

NextOverlap == RegionsAreOverlapping

SpecOverlap == InitOverlap /\ [][NextOverlap]_vars

(* Properties of regions_are_overlapping *)

\* some voxel has a non-zero weight in more than one of the regions
SharedVoxel ==
    \E v \in 1..NVox : \E q, r \in 1..Len(region_rows) :
        q # r /\ region_rows[q][v] # Zero /\ region_rows[r][v] # Zero

\* C8: for a list of volumes, a (region, voxel) matrix and a 4D stack the
\* predicate is true iff some voxel has a non-zero weight in more than one
\* region (hence the same for the three layouts of the same regions); for a
\* 3D volume of labels it is false
C8_Overlap ==
    pc = "overlap_done" =>
        IF overlap_arg.type = "ndarray" /\ overlap_arg.ndim = 3
        THEN predicate = FALSE
        ELSE predicate = SharedVoxel

C8_Witness ==
    /\ pc = "overlap_done"
    /\ overlap_arg.type = "ndarray" /\ overlap_arg.ndim = 4
    /\ Len(region_rows) >= 2
    /\ predicate = TRUE
    /\ \E v \in 1..NVox : region_rows[1][v] = R(-1) /\ region_rows[2][v] = R(2)

-----------------------------------------------------------------------------
(* regions_to_mask *)

\* a > b for finite a, b
FGt(a, b) == a[1] * b[2] > b[1] * a[2]

\* output[abs(data) > threshold] = True
MergeInto(out, data, thr) ==
    [v \in 1..Len(out) |-> IF FGt(FAbs(data[v]), thr) THEN 1 ELSE out[v]]

\* for n in xrange(shape[3]): output[abs(data[..., n]) > threshold] = True
RECURSIVE MergeStack(_, _, _, _, _)
MergeStack(out, data, nreg, n, thr) ==
    IF n > nreg THEN out
    ELSE MergeStack(MergeInto(out, Col(data, n), thr), data, nreg, n + 1, thr)

\* the argument regions_img: a list or a generator of 3D images (items; a
\* generator has given its first `taken` items), or one image
Iterable(kind, items, taken) ==
    [kind |-> kind, items |-> items, taken |-> taken, image |-> None]

Niimg(image) == [kind |-> "niimg", items |-> <<>>, taken |-> 0, image |-> image]

Other == [kind |-> "other", items |-> <<>>, taken |-> 0, image |-> None]

\* iter(regions_img) of a generator is the generator: it goes on from the
\* items taken; iter of a list starts a new pass
IsGenerator == regions_img.kind = "generator"

\* regions_img.__iter__().next(), the shape of the first image and the
\* output of zeros
RtmFirst ==
    /\ pc = "regions_to_mask"
    /\ regions_img.kind \in {"list", "generator"}
    /\ \E first \in {regions_img.items[regions_img.taken + 1]} :
          IF Len(first.shape) # 3
          THEN /\ Raise("List must contain 3D arrays")
               /\ output' = output
          ELSE /\ output' = Image(first.shape, first.affine,
                                  [v \in 1..Len(first.data) |-> 0])
               /\ pc' = "rtm_loop"
               /\ error' = error
    /\ regions_img' = IF IsGenerator
                      THEN [regions_img EXCEPT !.taken = @ + 1]
                      ELSE regions_img
    /\ loop_pos' = 0
    /\ UNCHANGED <<threshold, background>>
    /\ UNCHANGED <<solverVars, extractVars, trimVars, overlapVars>>

\* the items the for loop has gone past
LoopTaken == IF IsGenerator THEN regions_img.taken ELSE loop_pos

\* for r in regions_img: one image, or the end of the loop and the return
RtmLoop ==
    /\ pc = "rtm_loop"
    /\ IF LoopTaken >= Len(regions_img.items)
       THEN /\ pc' = "rtm_done"
            /\ UNCHANGED <<error, output, regions_img, loop_pos>>
       ELSE \E niimg \in {regions_img.items[LoopTaken + 1]} :
               /\ IF niimg.shape # output.shape
                  THEN /\ Raise("Inconsistent shape in input list")
                       /\ output' = output
                  ELSE /\ output' = [output EXCEPT
                                        !.data = MergeInto(@, niimg.data, threshold)]
                       /\ pc' = pc
                       /\ error' = error
               /\ regions_img' = IF IsGenerator
                                 THEN [regions_img EXCEPT !.taken = @ + 1]
                                 ELSE regions_img
               /\ loop_pos' = IF IsGenerator THEN loop_pos ELSE loop_pos + 1
    /\ UNCHANGED <<threshold, background>>
    /\ UNCHANGED <<solverVars, extractVars, trimVars, overlapVars>>

\* one image: a 4D stack of maps or a 3D volume of labels
RtmNiimg ==
    /\ pc = "regions_to_mask"
    /\ regions_img.kind = "niimg"
    /\ \E niimg \in {regions_img.image} :
          IF Len(niimg.shape) = 4
          THEN /\ output' = Image(Shape3(niimg), niimg.affine,
                                  MergeStack([v \in 1..Len(niimg.data) |-> 0],
                                             niimg.data, niimg.shape[4], 1,
                                             threshold))
               /\ pc' = "rtm_done"
               /\ error' = error
          ELSE IF Len(niimg.shape) = 3
          THEN /\ output' = Image(niimg.shape, niimg.affine,
                                  [v \in 1..Len(niimg.data) |->
                                      IF niimg.data[v] # background THEN 1 ELSE 0])
               /\ pc' = "rtm_done"
               /\ error' = error
          ELSE /\ Raise("Invalid shape for input array")
               /\ output' = output
    /\ UNCHANGED <<regions_img, threshold, background, loop_pos>>
    /\ UNCHANGED <<solverVars, extractVars, trimVars, overlapVars>>

\* neither an iterable nor an image
RtmUnhandled ==
    /\ pc = "regions_to_mask"
    /\ regions_img.kind = "other"
    /\ Raise("Unhandled data type")
    /\ UNCHANGED mergeVars
    /\ UNCHANGED <<solverVars, extractVars, trimVars, overlapVars>>

MergeWeights == {R(-2), R(0), R(1)}

Thresholds == {R(0), R(1)}

\* the list of the volumes given as rows, all of shape ShapeA but the last,
\* of shape sh
VolumeList(rows, sh) ==
    [i \in 1..Len(rows) |->
        Image(IF i = Len(rows) THEN sh ELSE ShapeA, Affine0, rows[i])]

InitMerge ==
    /\ pc = "regions_to_mask"
    /\ error = ""
    /\ threshold \in Thresholds
    /\ loop_pos = 0
    /\ output = Unset
    /\ \/ /\ \E n \in 1..MaxRegions :
                \E rows \in Matrices(n, NVox, MergeWeights),
                   sh \in IF n = 1 THEN {ShapeA} ELSE Shapes,
                   k \in {"list", "generator"} :
                    regions_img = Iterable(k, VolumeList(rows, sh), 0)
          /\ background = 0
       \/ /\ \E n \in 1..MaxRegions :
                regions_img \in {Niimg(Image(ShapeA \o <<n>>, Affine0, d)) :
                                    d \in Matrices(NVox, n, MergeWeights)}
          /\ background = 0
       \/ /\ regions_img \in {Niimg(Image(ShapeA, Affine0, d)) :
                                 d \in [1..NVox -> LabelValues]}
          /\ background \in {0, 1}
       \/ /\ regions_img \in {Other, Niimg(Image(<<NVox, 1>>, Affine0, <<>>))}
          /\ background = 0
    /\ IdleSolver /\ IdleExtract /\ IdleTrim /\ IdleOverlap

NextMerge == RtmFirst \/ RtmLoop \/ RtmNiimg \/ RtmUnhandled

SpecMerge == InitMerge /\ [][NextMerge]_vars

(* Properties of regions_to_mask *)

\* the 4D stack made of the volumes of the iterable
StackOf(items) ==
    [v \in 1..NVox |-> [n \in 1..Len(items) |-> items[n].data[v]]]

\* the weight is beyond the threshold, strictly
Beyond(q) ==
    IF q[1] < 0 THEN -q[1] * threshold[2] > threshold[1] * q[2]
    ELSE q[1] * threshold[2] > threshold[1] * q[2]

FromIterable == regions_img.kind \in {"list", "generator"}

\* C7: merging an iterable of volumes (a list, or a sequence that can be
\* gone through once) sets a voxel iff its weight is beyond the threshold in
\* one of the volumes at least, which is the mask of the 4D stack of the
\* same volumes
C7_MergeIterable ==
    (pc = "rtm_done" /\ FromIterable) =>
        /\ \A v \in 1..NVox :
              output.data[v] = 1
                  <=> \E n \in 1..Len(regions_img.items) :
                         Beyond(regions_img.items[n].data[v])
        /\ output.data =
              MergeStack([v \in 1..NVox |-> 0], StackOf(regions_img.items),
                         Len(regions_img.items), 1, threshold)

\* C7 for lists only: a list of volumes gives the mask of the voxels beyond
\* the threshold in one volume at least, the mask of the 4D stack
C7_MergeList ==
    (pc = "rtm_done" /\ regions_img.kind = "list") =>
        /\ \A v \in 1..NVox :
              output.data[v] = 1
                  <=> \E n \in 1..Len(regions_img.items) :
                         Beyond(regions_img.items[n].data[v])
        /\ output.data =
              MergeStack([v \in 1..NVox |-> 0], StackOf(regions_img.items),
                         Len(regions_img.items), 1, threshold)

-----------------------------------------------------------------------------
(* All the calls together *)

Init == InitSolver \/ InitTrim \/ InitExtract \/ InitOverlap \/ InitMerge

Next == NextSolver \/ NextTrim \/ NextExtract \/ NextOverlap \/ NextMerge

Spec == Init /\ [][Next]_vars

=============================================================================
